---- MODULE Spec2Model ----
(***************************************************************************)
(* Stream security negotiation of asyncio_xmpp.security_layer:             *)
(* negotiate_stream_security drives STARTTLSProvider.execute once and then *)
(* the PasswordSASLProvider.execute of every provider of sasl_providers.   *)
(* The coroutine is sequential, so the state is the position (pc) of the   *)
(* one flow of control, the locals of the frames that are alive and the    *)
(* exception in flight.  Peer answers, the password provider's answers and *)
(* stream resets are inputs drawn with \E.                                 *)
(***************************************************************************)
EXTENDS Integers, Sequences, FiniteSets, TLC

\* Python's None, for the string-valued variables.
None == "None"

-----------------------------------------------------------------------------
(* Bounds of the model. *)

\* largest max_auth_attempts a provider is built with
MaxAttempts == 2
\* longest sasl_providers list
MaxProviders == 2
\* most calls of credential_provider a mechanism makes in one exchange
MaxCredRequests == 2

-----------------------------------------------------------------------------
(* Exceptions.  "at" is the identity of an authentication error raised by   *)
(* _execute: the attempt number of the exchange that produced it.           *)

Error(kind, xmpp_error, at) == [kind |-> kind, xmpp_error |-> xmpp_error, at |-> at]

NoError == Error("None", "", -1)

TLSFailure(msg) == Error("TLSFailure", msg, -1)

SASLUnavailable(msg) == Error("SASLUnavailable", msg, -1)

SASLFailure(xmpp_error) == Error("SASLFailure", xmpp_error, -1)

AuthenticationFailure(xmpp_error, at) == Error("AuthenticationFailure", xmpp_error, at)

\* errors.AuthenticationFailure("Authentication aborted by user")
AbortedByUser == AuthenticationFailure("Authentication aborted by user", -1)

TimeoutError == Error("TimeoutError", "", -1)

\* asyncio.CancelledError
CancelledError == Error("CancelledError", "", -1)

\* raise None: "exceptions must derive from BaseException"
TypeError == Error("TypeError", "exceptions must derive from BaseException", -1)

AUTHENTICATION_FAILURES ==
    {"credentials-expired", "account-disabled", "invalid-authzid",
     "not-authorized", "temporary-auth-failure"}

MECHANISM_REJECTED_FAILURES ==
    {"invalid-mechanism", "mechanism-too-weak", "encryption-required"}

\* SASL conditions of RFC 6120 that are in neither set
OTHER_FAILURES == {"aborted", "malformed-request"}

\* what the peer answers to a mechanism exchange: success, or a failure with
\* one of these conditions
PeerOutcomes ==
    {"success", "not-authorized", "temporary-auth-failure"}
        \cup MECHANISM_REJECTED_FAILURES \cup OTHER_FAILURES

\* what the password provider may return: a password, or None to abort
Passwords == {"secret"}

-----------------------------------------------------------------------------
(* Stream features. *)

\* texts of the <mechanism/> children of a peer's <mechanisms/>; "" is a
\* child without text
RemoteMechanismTexts ==
    { <<>>,
      <<"SCRAM-SHA-1">>, <<"PLAIN">>, <<"", "DIGEST-MD5">>,
      <<"SCRAM-SHA-1", "PLAIN">>, <<"PLAIN", "SCRAM-SHA-1">> }

\* a StreamFeatures node: id tells the snapshots of one run apart (0 is the
\* node passed to negotiate_stream_security, n the one of the n-th reset)
Features(id, starttls, sasl, texts) ==
    [id |-> id, starttls |-> starttls, sasl |-> sasl, mechanisms |-> texts]

InitialFeatures ==
    { Features(0, s, TRUE, t) : s \in BOOLEAN, t \in RemoteMechanismTexts }
        \cup { Features(0, s, FALSE, <<>>) : s \in BOOLEAN }

ResetFeatures(id) ==
    { Features(id, FALSE, TRUE, t) : t \in RemoteMechanismTexts }
        \cup { Features(id, FALSE, FALSE, <<>>) }

-----------------------------------------------------------------------------
(* SASL mechanism classes (asyncio_xmpp.sasl). *)

\* the names a mechanism class can speak
MechanismNames(cls) ==
    IF cls = "SCRAM" THEN {"SCRAM-SHA-1"}
    ELSE IF cls = "PLAIN" THEN {"PLAIN"}
    ELSE {}

\* SASLMechanism.any_supported: a token if the class can use one of the
\* names of the list, None otherwise
any_supported(cls, remote_mechanism_list) ==
    LET idx == { i \in 1..Len(remote_mechanism_list) :
                    remote_mechanism_list[i] \in MechanismNames(cls) }
    IN  IF idx = {} THEN None
        ELSE remote_mechanism_list[CHOOSE i \in idx : \A j \in idx : i <= j]

-----------------------------------------------------------------------------
VARIABLES
    pc,                 \* position of the flow of control
    required,           \* STARTTLSProvider._required
    can_starttls,       \* hasattr(xmlstream.transport, "starttls")
    sasl_providers,     \* the providers, each given by its _max_auth_attempts
    features,           \* negotiate_stream_security: features
    tls_transport,      \* negotiate_stream_security: tls_transport
    last_auth_error,    \* negotiate_stream_security: last_auth_error
    provider,           \* index of the provider of the current iteration
    result,             \* negotiate_stream_security: result
    exc,                \* the exception in flight, or the one the run failed with
    classes,            \* execute: classes
    mechanism_class,    \* execute: mechanism_class
    token,              \* execute: token
    nattempt,           \* execute: nattempt
    next_attempt,       \* execute: next value of range(self._max_auth_attempts)
    cached_credentials, \* execute: cached_credentials
    password_signalled_abort,   \* execute: password_signalled_abort
    p_last_auth_error,  \* execute: last_auth_error
    mechanism_worked,   \* execute: mechanism_worked
    cred_requests,      \* calls of credential_provider in the running exchange
    \* history
    tls_executions,     \* calls of tls_provider.execute
    starttls_sent,      \* STARTTLS requests sent
    tls_response,       \* the peer's answer to the STARTTLS request, if any
    upgrades,           \* calls of xmlstream.transport.starttls
    resets,             \* calls of reset_stream_and_get_features
    prompts,            \* calls of the password provider for mechanism_class
    prompted_with,      \* attempt number given to the password provider in
                        \* the running exchange, -1 if it was not called
    exchanges,          \* exchanges started in the current execute call
    rejected,           \* classes removed in the current execute call
    abort_provider,     \* provider in which the password provider aborted last
    latest_raised,      \* the latest AuthenticationFailure that left an execute
    auth_conditions,    \* the peer answered an exchange of the run with a
                        \* condition of AUTHENTICATION_FAILURES
    cancelled           \* the caller cancelled the run

orchestrator == <<features, tls_transport, last_auth_error, provider, result>>

config == <<required, can_starttls, sasl_providers>>

locals == <<classes, mechanism_class, token, nattempt, next_attempt,
            cached_credentials, password_signalled_abort, p_last_auth_error,
            mechanism_worked, cred_requests>>

tls_history == <<tls_executions, starttls_sent, tls_response, upgrades>>

call_history == <<prompts, prompted_with, exchanges, rejected>>

vars == <<pc, exc, orchestrator, config, cancelled, auth_conditions,
          locals, tls_history, resets,
          call_history, abort_provider, latest_raised>>

-----------------------------------------------------------------------------
ProviderLists ==
    UNION { [1..n -> 0..MaxAttempts] : n \in 1..MaxProviders }

\* no execute frame is alive
NoFrame ==
    /\ classes' = <<>>
    /\ mechanism_class' = None
    /\ token' = None
    /\ nattempt' = 0
    /\ next_attempt' = 0
    /\ cached_credentials' = None
    /\ password_signalled_abort' = FALSE
    /\ p_last_auth_error' = NoError
    /\ mechanism_worked' = FALSE
    /\ cred_requests' = 0
    /\ prompts' = 0
    /\ prompted_with' = -1
    /\ exchanges' = 0
    /\ rejected' = {}

Init ==
    /\ pc = "start"
    /\ required \in BOOLEAN
    /\ can_starttls \in BOOLEAN
    /\ sasl_providers \in ProviderLists
    /\ features \in InitialFeatures
    /\ tls_transport = None
    /\ last_auth_error = NoError
    /\ provider = 0
    /\ result = FALSE
    /\ exc = NoError
    /\ classes = <<>>
    /\ mechanism_class = None
    /\ token = None
    /\ nattempt = 0
    /\ next_attempt = 0
    /\ cached_credentials = None
    /\ password_signalled_abort = FALSE
    /\ p_last_auth_error = NoError
    /\ mechanism_worked = FALSE
    /\ cred_requests = 0
    /\ tls_executions = 0
    /\ starttls_sent = 0
    /\ tls_response = None
    /\ upgrades = 0
    /\ resets = 0
    /\ prompts = 0
    /\ prompted_with = -1
    /\ exchanges = 0
    /\ rejected = {}
    /\ abort_provider = 0
    /\ latest_raised = NoError
    /\ auth_conditions = FALSE
    /\ cancelled = FALSE

-----------------------------------------------------------------------------
(* STARTTLSProvider *)

\* a mutation of _fail_if_required: self._required is not looked at
_never_fail(msg) ==
    /\ pc' = "tls_returned"
    /\ exc' = exc
    /\ tls_transport' = None

\* _fail_if_required, and what execute's caller sees of it: TLSFailure leaves
\* negotiate_stream_security, None is returned to it
_fail_if_required(msg) ==
    IF required
    THEN /\ pc' = "failed"
         /\ exc' = TLSFailure(msg)
         /\ tls_transport' = tls_transport
    ELSE /\ pc' = "tls_returned"
         /\ exc' = exc
         /\ tls_transport' = None

\* a mutation of TlsExecute: a transport without starttls is never fatal
TlsExecuteSkips ==
    /\ pc = "start"
    /\ tls_executions' = tls_executions + 1
    /\ IF ~features.starttls
       THEN /\ _fail_if_required("STARTTLS not supported by peer")
            /\ starttls_sent' = starttls_sent
       ELSE IF ~can_starttls
       THEN /\ pc' = "tls_returned"
            /\ UNCHANGED <<exc, tls_transport, starttls_sent>>
       ELSE /\ starttls_sent' = starttls_sent + 1
            /\ pc' = "tls_wait"
            /\ UNCHANGED <<exc, tls_transport>>
    /\ UNCHANGED <<features, last_auth_error, provider, result, config,
                   cancelled, auth_conditions, locals,
                   tls_response, upgrades, resets, call_history,
                   abort_provider, latest_raised>>

\* negotiate_stream_security calls tls_provider.execute, which runs up to
\* its first suspension
TlsExecute ==
    /\ pc = "start"
    /\ tls_executions' = tls_executions + 1
    /\ IF ~features.starttls
       THEN /\ _fail_if_required("STARTTLS not supported by peer")
            /\ starttls_sent' = starttls_sent
       ELSE IF ~can_starttls
       THEN /\ _fail_if_required("STARTTLS not supported by us")
            /\ starttls_sent' = starttls_sent
       ELSE /\ starttls_sent' = starttls_sent + 1
            /\ pc' = "tls_wait"
            /\ UNCHANGED <<exc, tls_transport>>
    /\ UNCHANGED <<features, last_auth_error, provider, result, config,
                   cancelled, auth_conditions, locals,
                   tls_response, upgrades, resets, call_history,
                   abort_provider, latest_raised>>

\* a mutation of TlsResponse: a STARTTLS the peer refuses is asked for again
TlsResponseRetry(node) ==
    /\ pc = "tls_wait"
    /\ tls_response' = node
    /\ IF node = "proceed"
       THEN /\ pc' = "tls_upgrade"
            /\ upgrades' = upgrades + 1
            /\ UNCHANGED <<exc, tls_transport, starttls_sent>>
       ELSE IF required
       THEN /\ _fail_if_required("STARTTLS failed on remote side")
            /\ UNCHANGED <<starttls_sent, upgrades>>
       ELSE /\ starttls_sent' = starttls_sent + 1
            /\ pc' = "tls_wait"
            /\ UNCHANGED <<exc, tls_transport, upgrades>>
    /\ UNCHANGED <<features, last_auth_error, provider, result, config,
                   cancelled, auth_conditions, locals,
                   tls_executions, resets, call_history, abort_provider,
                   latest_raised>>

\* a mutation of TlsResponse: the tag of the answer is not looked at
TlsResponseAlwaysProceed(node) ==
    /\ pc = "tls_wait"
    /\ tls_response' = node
    /\ pc' = "tls_upgrade"
    /\ upgrades' = upgrades + 1
    /\ UNCHANGED <<exc, tls_transport>>
    /\ UNCHANGED <<features, last_auth_error, provider, result, config,
                   cancelled, auth_conditions, locals,
                   tls_executions, starttls_sent, resets, call_history,
                   abort_provider, latest_raised>>

\* the peer's answer to the STARTTLS request arrives
TlsResponse(node) ==
    /\ pc = "tls_wait"
    /\ tls_response' = node
    /\ IF node = "proceed"
       THEN /\ pc' = "tls_upgrade"
            /\ upgrades' = upgrades + 1
            /\ UNCHANGED <<exc, tls_transport>>
       ELSE /\ _fail_if_required("STARTTLS failed on remote side")
            /\ upgrades' = upgrades
    /\ UNCHANGED <<features, last_auth_error, provider, result, config,
                   cancelled, auth_conditions, locals,
                   tls_executions, starttls_sent, resets, call_history,
                   abort_provider, latest_raised>>

\* a mutation of TlsUpgrade: a failed upgrade goes through _fail_if_required
TlsUpgradeSkippable(ok) ==
    /\ pc = "tls_upgrade"
    /\ IF ok
       THEN /\ tls_transport' = "tls_transport"
            /\ pc' = "tls_returned"
            /\ exc' = exc
       ELSE _fail_if_required("TLS connection failed")
    /\ UNCHANGED <<features, last_auth_error, provider, result, config,
                   cancelled, auth_conditions, locals,
                   tls_history, resets, call_history, abort_provider,
                   latest_raised>>

\* xmlstream.transport.starttls returns or raises
TlsUpgrade(ok) ==
    /\ pc = "tls_upgrade"
    /\ IF ok
       THEN /\ tls_transport' = "tls_transport"
            /\ pc' = "tls_returned"
            /\ exc' = exc
       ELSE /\ exc' = TLSFailure("TLS connection failed")
            /\ pc' = "failed"
            /\ tls_transport' = tls_transport
    /\ UNCHANGED <<features, last_auth_error, provider, result, config,
                   cancelled, auth_conditions, locals,
                   tls_history, resets, call_history, abort_provider,
                   latest_raised>>

-----------------------------------------------------------------------------
(* negotiate_stream_security *)

\* a mutation of AfterTls: the stream is not reset after TLS
AfterTlsNoReset ==
    /\ pc = "tls_returned"
    /\ pc' = "for_provider"
    /\ last_auth_error' = NoError
    /\ UNCHANGED <<exc, features, tls_transport, provider, result, config,
                   cancelled, auth_conditions,
                   locals, tls_history, resets, call_history, abort_provider,
                   latest_raised>>

\* tls_provider.execute has returned
AfterTls ==
    /\ pc = "tls_returned"
    /\ IF tls_transport # None
       THEN /\ pc' = "reset_tls"
            /\ last_auth_error' = last_auth_error
       ELSE /\ pc' = "for_provider"
            /\ last_auth_error' = NoError
    /\ UNCHANGED <<exc, features, tls_transport, provider, result, config,
                   cancelled, auth_conditions,
                   locals, tls_history, resets, call_history, abort_provider,
                   latest_raised>>

\* a mutation of ResetAfterTls: a timeout is swallowed and the old features
\* are kept
ResetAfterTlsSwallow(ok, node) ==
    /\ pc = "reset_tls"
    /\ resets' = resets + 1
    /\ features' = IF ok THEN node ELSE features
    /\ last_auth_error' = NoError
    /\ pc' = "for_provider"
    /\ exc' = exc
    /\ UNCHANGED <<tls_transport, provider, result, config,
                   cancelled, auth_conditions, locals,
                   tls_history, call_history, abort_provider,
                   latest_raised>>

\* reset_stream_and_get_features after TLS returns a node or times out
ResetAfterTls(ok, node) ==
    /\ pc = "reset_tls"
    /\ resets' = resets + 1
    /\ IF ok
       THEN /\ features' = node
            /\ last_auth_error' = NoError
            /\ pc' = "for_provider"
            /\ exc' = exc
       ELSE /\ exc' = TimeoutError
            /\ pc' = "failed"
            /\ UNCHANGED <<features, last_auth_error>>
    /\ UNCHANGED <<tls_transport, provider, result, config,
                   cancelled, auth_conditions, locals,
                   tls_history, call_history, abort_provider,
                   latest_raised>>

\* a mutation of Classes: PLAIN is a candidate whatever the transport
ClassesAlwaysPlain(tls) == <<"SCRAM", "PLAIN">>

\* classes of PasswordSASLProvider.execute
Classes(tls) ==
    IF tls # None THEN <<"SCRAM", "PLAIN">> ELSE <<"SCRAM">>

\* the for statement over sasl_providers: the next provider's execute is
\* called and sets up its locals, or the loop's else clause raises
NextProvider ==
    /\ pc = "for_provider"
    /\ IF provider < Len(sasl_providers)
       THEN /\ provider' = provider + 1
            /\ pc' = "while_classes"
            /\ classes' = Classes(tls_transport)
            /\ password_signalled_abort' = FALSE
            /\ nattempt' = 0
            /\ cached_credentials' = None
            /\ UNCHANGED <<exc, mechanism_class, token, next_attempt,
                           p_last_auth_error, mechanism_worked, cred_requests>>
       ELSE /\ exc' = IF last_auth_error # NoError
                      THEN last_auth_error
                      ELSE SASLUnavailable("No common mechanisms")
            /\ pc' = "failed"
            /\ UNCHANGED <<provider, locals>>
    /\ UNCHANGED <<features, tls_transport, last_auth_error, result, config,
                   cancelled, auth_conditions,
                   tls_history, resets, call_history, abort_provider,
                   latest_raised>>

\* a mutation of IsAuthenticationFailure: only a failure reported by the peer
\* is caught, a user abort is not
IsPeerAuthenticationFailure(e) ==
    e.kind = "AuthenticationFailure" /\ e.xmpp_error \in AUTHENTICATION_FAILURES

\* a mutation of IsAuthenticationFailure: except errors.SASLFailure
IsSASLFailure(e) == e.kind \in {"AuthenticationFailure", "SASLFailure"}

\* a mutation of IsAuthenticationFailure: SASLUnavailable is caught as well
IsSASLError(e) == e.kind \in {"AuthenticationFailure", "SASLUnavailable"}

\* except errors.AuthenticationFailure
IsAuthenticationFailure(e) == e.kind = "AuthenticationFailure"

\* a mutation of ProviderRaised: the first authentication error is kept
ProviderRaisedKeepFirst ==
    /\ pc = "provider_raised"
    /\ IF IsAuthenticationFailure(exc)
       THEN /\ last_auth_error' = IF last_auth_error # NoError
                                  THEN last_auth_error
                                  ELSE exc
            /\ exc' = NoError
            /\ pc' = "for_provider"
       ELSE /\ pc' = "failed"
            /\ UNCHANGED <<exc, last_auth_error>>
    /\ UNCHANGED <<features, tls_transport, provider, result, config,
                   cancelled, auth_conditions, locals,
                   tls_history, resets, call_history, abort_provider,
                   latest_raised>>

\* the provider's execute raised
ProviderRaised ==
    /\ pc = "provider_raised"
    /\ IF IsAuthenticationFailure(exc)
       THEN /\ last_auth_error' = exc
            /\ exc' = NoError
            /\ pc' = "for_provider"
       ELSE /\ pc' = "failed"
            /\ UNCHANGED <<exc, last_auth_error>>
    /\ UNCHANGED <<features, tls_transport, provider, result, config,
                   cancelled, auth_conditions, locals,
                   tls_history, resets, call_history, abort_provider,
                   latest_raised>>

\* a mutation of ProviderReturned: the loop goes on after a success
ProviderReturnedNoBreak ==
    /\ pc = "provider_returned"
    /\ pc' = "for_provider"
    /\ UNCHANGED <<exc, orchestrator, config,
                   cancelled, auth_conditions, locals, tls_history, resets,
                   call_history, abort_provider, latest_raised>>

\* a mutation of ProviderReturned: the stream is not reset after a success
ProviderReturnedNoReset ==
    /\ pc = "provider_returned"
    /\ pc' = IF result THEN "done" ELSE "for_provider"
    /\ UNCHANGED <<exc, orchestrator, config,
                   cancelled, auth_conditions, locals, tls_history, resets,
                   call_history, abort_provider, latest_raised>>

\* the provider's execute returned
ProviderReturned ==
    /\ pc = "provider_returned"
    /\ pc' = IF result THEN "reset_sasl" ELSE "for_provider"
    /\ UNCHANGED <<exc, orchestrator, config,
                   cancelled, auth_conditions, locals, tls_history, resets,
                   call_history, abort_provider,
                   latest_raised>>

\* reset_stream_and_get_features after SASL returns a node or times out
ResetAfterSasl(ok, node) ==
    /\ pc = "reset_sasl"
    /\ resets' = resets + 1
    /\ IF ok
       THEN /\ features' = node
            /\ pc' = "done"
            /\ exc' = exc
       ELSE /\ exc' = TimeoutError
            /\ pc' = "failed"
            /\ features' = features
    /\ UNCHANGED <<tls_transport, last_auth_error, provider, result, config,
                   cancelled, auth_conditions,
                   locals, tls_history, call_history, abort_provider,
                   latest_raised>>

-----------------------------------------------------------------------------
(* SASLProvider *)

\* remote_mechanism_list of _find_supported
remote_mechanism_list(f) == SelectSeq(f.mechanisms, LAMBDA text : text # "")

\* a mutation of _find_supported: the first class is returned when none is
\* usable
_find_supported_default(f, mechanism_classes) ==
    LET usable == { i \in 1..Len(mechanism_classes) :
                      any_supported(mechanism_classes[i],
                                    remote_mechanism_list(f)) # None }
        first == IF usable = {} THEN 1
                 ELSE CHOOSE i \in usable : \A j \in usable : i <= j
    IN  <<mechanism_classes[first],
          any_supported(mechanism_classes[first], remote_mechanism_list(f))>>

\* a mutation of _find_supported: the class of the first name of the peer that
\* some class can use is returned
_find_supported_peer_order(f, mechanism_classes) ==
    LET names == remote_mechanism_list(f)
        known == { i \in 1..Len(names) :
                     \E j \in 1..Len(mechanism_classes) :
                        names[i] \in MechanismNames(mechanism_classes[j]) }
    IN  IF known = {} THEN <<None, None>>
        ELSE LET first == CHOOSE i \in known : \A j \in known : i <= j
                 cls == CHOOSE j \in 1..Len(mechanism_classes) :
                           names[first] \in MechanismNames(mechanism_classes[j])
             IN  <<mechanism_classes[cls], names[first]>>

\* _find_supported once the mechanisms feature is there: <<class, token>>
_find_supported(f, mechanism_classes) ==
    LET usable == { i \in 1..Len(mechanism_classes) :
                      any_supported(mechanism_classes[i],
                                    remote_mechanism_list(f)) # None }
    IN  IF usable = {} THEN <<None, None>>
        ELSE LET first == CHOOSE i \in usable : \A j \in usable : i <= j
             IN  <<mechanism_classes[first],
                   any_supported(mechanism_classes[first],
                                 remote_mechanism_list(f))>>

\* execute returns value to negotiate_stream_security
Return(value) ==
    /\ result' = value
    /\ pc' = "provider_returned"
    /\ exc' = exc
    /\ latest_raised' = latest_raised
    /\ NoFrame

\* err leaves execute
Raise(err) ==
    /\ exc' = err
    /\ pc' = "provider_raised"
    /\ result' = result
    /\ latest_raised' = IF err.kind = "AuthenticationFailure"
                        THEN err
                        ELSE latest_raised
    /\ NoFrame

\* the while statement of execute, up to the for statement
WhileClasses ==
    /\ pc = "while_classes"
    /\ IF classes = <<>>
       THEN Return(FALSE)
       ELSE IF ~features.sasl
       THEN Raise(SASLUnavailable("Remote side does not support SASL"))
       ELSE LET found == _find_supported(features, classes)
            IN  IF found[1] = None
                THEN Return(FALSE)
                ELSE /\ mechanism_class' = found[1]
                     /\ token' = found[2]
                     /\ p_last_auth_error' = NoError
                     /\ next_attempt' = 0
                     /\ prompts' = 0
                     /\ pc' = "for_attempt"
                     /\ UNCHANGED <<exc, result, classes, nattempt,
                                    cached_credentials, password_signalled_abort,
                                    mechanism_worked, cred_requests,
                                    prompted_with, exchanges, rejected,
                                    latest_raised>>
    /\ UNCHANGED <<features, tls_transport, last_auth_error, provider, config,
                   cancelled, auth_conditions,
                   tls_history, resets, abort_provider>>

\* a mutation of ForAttempt: the loop runs once more than the range has values
ForAttemptOneMore ==
    /\ pc = "for_attempt"
    /\ IF next_attempt <= sasl_providers[provider]
       THEN /\ nattempt' = next_attempt
            /\ next_attempt' = next_attempt + 1
            /\ cred_requests' = 0
            /\ prompted_with' = -1
            /\ exchanges' = exchanges + 1
            /\ pc' = "authenticate"
            /\ UNCHANGED <<exc, result, classes, mechanism_class, token,
                           cached_credentials, password_signalled_abort,
                           p_last_auth_error, mechanism_worked, prompts,
                           rejected, latest_raised>>
       ELSE Raise(IF p_last_auth_error = NoError
                  THEN TypeError
                  ELSE p_last_auth_error)
    /\ UNCHANGED <<features, tls_transport, last_auth_error, provider, config,
                   cancelled, auth_conditions,
                   tls_history, resets, abort_provider>>

\* the for statement over range(self._max_auth_attempts): the next attempt
\* starts _execute, or the loop's else clause raises last_auth_error
ForAttempt ==
    /\ pc = "for_attempt"
    /\ IF next_attempt < sasl_providers[provider]
       THEN /\ nattempt' = next_attempt
            /\ next_attempt' = next_attempt + 1
            /\ cred_requests' = 0
            /\ prompted_with' = -1
            /\ exchanges' = exchanges + 1
            /\ pc' = "authenticate"
            /\ UNCHANGED <<exc, result, classes, mechanism_class, token,
                           cached_credentials, password_signalled_abort,
                           p_last_auth_error, mechanism_worked, prompts,
                           rejected, latest_raised>>
       ELSE Raise(IF p_last_auth_error = NoError
                  THEN TypeError
                  ELSE p_last_auth_error)
    /\ UNCHANGED <<features, tls_transport, last_auth_error, provider, config,
                   cancelled, auth_conditions,
                   tls_history, resets, abort_provider>>

\* a mutation of UseCache: the password provider is asked every time
NeverUseCache(cached) == FALSE

\* credential_provider: the cached credentials are returned
UseCache(cached) == cached # None

\* the mechanism calls credential_provider
CredentialProvider(password) ==
    /\ pc = "authenticate"
    /\ cred_requests < MaxCredRequests
    /\ cred_requests' = cred_requests + 1
    /\ IF UseCache(cached_credentials)
       THEN UNCHANGED <<pc, exc, cached_credentials, password_signalled_abort,
                        prompts, prompted_with, abort_provider>>
       ELSE /\ prompts' = prompts + 1
            /\ prompted_with' = nattempt
            /\ IF password = None
               THEN /\ password_signalled_abort' = TRUE
                    /\ exc' = AbortedByUser
                    /\ pc' = "execute_except"
                    /\ abort_provider' = provider
                    /\ cached_credentials' = cached_credentials
               ELSE /\ cached_credentials' = password
                    /\ UNCHANGED <<pc, exc, password_signalled_abort,
                                   abort_provider>>
    /\ UNCHANGED <<orchestrator, config,
                   cancelled, auth_conditions, classes, mechanism_class, token,
                   nattempt, next_attempt, p_last_auth_error, mechanism_worked,
                   tls_history, resets, exchanges, rejected, latest_raised>>

\* _execute: mechanism.authenticate ends with the peer's outcome
Authenticate(outcome) ==
    /\ pc = "authenticate"
    /\ cred_requests >= 1
    /\ IF outcome = "success"
       THEN /\ mechanism_worked' = TRUE
            /\ pc' = "after_for"
            /\ exc' = exc
       ELSE IF outcome \in AUTHENTICATION_FAILURES
       THEN /\ exc' = AuthenticationFailure(outcome, nattempt)
            /\ pc' = "execute_except"
            /\ mechanism_worked' = mechanism_worked
       ELSE IF outcome \in MECHANISM_REJECTED_FAILURES
       THEN /\ mechanism_worked' = FALSE
            /\ pc' = "after_for"
            /\ exc' = exc
       ELSE /\ exc' = SASLFailure(outcome)
            /\ pc' = "execute_except"
            /\ mechanism_worked' = mechanism_worked
    /\ auth_conditions' = (auth_conditions \/ outcome \in AUTHENTICATION_FAILURES)
    /\ UNCHANGED <<orchestrator, config,
                   cancelled, classes, mechanism_class, token,
                   nattempt, next_attempt, cached_credentials,
                   password_signalled_abort, p_last_auth_error, cred_requests,
                   tls_history, resets, prompts, prompted_with, exchanges,
                   rejected, abort_provider,
                   latest_raised>>

\* a mutation of ReraiseAbort: the abort is handled like a rejected password
IgnoreAbort(flag) == FALSE

\* if password_signalled_abort: raise
ReraiseAbort(flag) == flag

\* a mutation of Remembered: the first error of the loop is kept
RememberedFirst(err, previous) == IF previous # NoError THEN previous ELSE err

\* last_auth_error = err
Remembered(err, previous) == err

\* a mutation of ClearedCache: the credentials survive the failed attempt
KeptCache(cached) == cached

\* cached_credentials = None
ClearedCache(cached) == None

\* _execute raised into the try statement of execute
ExecuteExcept ==
    /\ pc = "execute_except"
    /\ IF IsAuthenticationFailure(exc)
       THEN IF ReraiseAbort(password_signalled_abort)
            THEN Raise(exc)
            ELSE /\ p_last_auth_error' = Remembered(exc, p_last_auth_error)
                 /\ cached_credentials' = ClearedCache(cached_credentials)
                 /\ exc' = NoError
                 /\ pc' = "for_attempt"
                 /\ UNCHANGED <<result, classes, mechanism_class, token,
                                nattempt, next_attempt,
                                password_signalled_abort, mechanism_worked,
                                cred_requests, call_history, latest_raised>>
       ELSE Raise(exc)
    /\ UNCHANGED <<features, tls_transport, last_auth_error, provider, config,
                   cancelled, auth_conditions,
                   tls_history, resets, abort_provider>>

\* a mutation of Remove: the rejected class stays a candidate
RemoveNothing(seq, cls) == seq

\* classes.remove(mechanism_class)
Remove(seq, cls) == SelectSeq(seq, LAMBDA c : c # cls)

\* a mutation of AfterFor: a rejected mechanism clears the cache as well
AfterForClearsCache ==
    /\ pc = "after_for"
    /\ IF mechanism_worked
       THEN Return(TRUE)
       ELSE /\ classes' = Remove(classes, mechanism_class)
            /\ rejected' = rejected \cup {mechanism_class}
            /\ pc' = "while_classes"
            /\ cached_credentials' = None
            /\ UNCHANGED <<exc, result, mechanism_class, token, nattempt,
                           next_attempt,
                           password_signalled_abort, p_last_auth_error,
                           mechanism_worked, cred_requests, prompts,
                           prompted_with, exchanges, latest_raised>>
    /\ UNCHANGED <<features, tls_transport, last_auth_error, provider, config,
                   cancelled, auth_conditions,
                   tls_history, resets, abort_provider>>

\* the for statement was left by break
AfterFor ==
    /\ pc = "after_for"
    /\ IF mechanism_worked
       THEN Return(TRUE)
       ELSE /\ classes' = Remove(classes, mechanism_class)
            /\ rejected' = rejected \cup {mechanism_class}
            /\ pc' = "while_classes"
            /\ UNCHANGED <<exc, result, mechanism_class, token, nattempt,
                           next_attempt, cached_credentials,
                           password_signalled_abort, p_last_auth_error,
                           mechanism_worked, cred_requests, prompts,
                           prompted_with, exchanges, latest_raised>>
    /\ UNCHANGED <<features, tls_transport, last_auth_error, provider, config,
                   cancelled, auth_conditions,
                   tls_history, resets, abort_provider>>

-----------------------------------------------------------------------------
(* Cancellation by the caller *)

\* the yield from statements negotiate_stream_security can be suspended in:
\* send_and_wait_for, transport.starttls, the two
\* reset_stream_and_get_features and mechanism.authenticate (the exchange and
\* the password provider)
Suspended ==
    {"tls_wait", "tls_upgrade", "reset_tls", "authenticate", "reset_sasl"}

\* the caller cancels the run: CancelledError is thrown into the suspended
\* coroutine. caught tells whether CancelledError is an Exception for the
\* interpreter (it is before Python 3.8): then the except clause around
\* transport.starttls turns it into TLSFailure
Cancel(caught) ==
    /\ pc \in Suspended
    /\ cancelled' = TRUE
    /\ pc' = "failed"
    /\ exc' = IF caught /\ pc = "tls_upgrade"
              THEN TLSFailure("TLS connection failed")
              ELSE CancelledError
    /\ IF pc = "authenticate"
       THEN NoFrame
       ELSE UNCHANGED <<locals, call_history>>
    /\ UNCHANGED <<orchestrator, config, auth_conditions, tls_history, resets,
                   abort_provider, latest_raised>>

-----------------------------------------------------------------------------
Next ==
    \/ TlsExecute
    \/ \E node \in {"proceed", "failure"} : TlsResponse(node)
    \/ \E ok \in BOOLEAN : TlsUpgrade(ok)
    \/ AfterTls
    \/ \E ok \in BOOLEAN : \E node \in ResetFeatures(resets + 1) :
           ResetAfterTls(ok, node)
    \/ NextProvider
    \/ WhileClasses
    \/ ForAttempt
    \/ \E password \in Passwords \cup {None} : CredentialProvider(password)
    \/ \E outcome \in PeerOutcomes : Authenticate(outcome)
    \/ ExecuteExcept
    \/ AfterFor
    \/ ProviderRaised
    \/ ProviderReturned
    \/ \E ok \in BOOLEAN : \E node \in ResetFeatures(resets + 1) :
           ResetAfterSasl(ok, node)
    \/ \E caught \in BOOLEAN : Cancel(caught)

Spec == Init /\ [][Next]_vars

\* every awaited exchange, password provider call, upgrade and reset returns,
\* and the event loop resumes the coroutine
LiveSpec == Spec /\ WF_vars(Next)

-----------------------------------------------------------------------------
(* Properties. *)

TlsPhase == {"start", "tls_wait", "tls_upgrade", "tls_returned", "reset_tls"}

\* self._max_auth_attempts of the provider whose execute is running
max_auth_attempts == sasl_providers[provider]

InExchange == {"authenticate", "execute_except", "after_for"}

\* C1: tls_provider.execute is called exactly once per run and at most one
\* STARTTLS request is sent, both before the first SASL provider is invoked;
\* no exchange and no credential request happens in the TLS phase, and once a
\* provider has been invoked nothing of the TLS phase happens again.
C1_TlsOnceBeforeSasl ==
    /\ [](/\ tls_executions <= 1
          /\ starttls_sent <= 1
          /\ pc # "start" => tls_executions = 1
          /\ pc \in TlsPhase =>
                provider = 0 /\ exchanges = 0 /\ prompts = 0 /\ cred_requests = 0
          /\ provider > 0 => tls_executions = 1 /\ pc \notin TlsPhase)
    /\ [][provider > 0 => UNCHANGED <<tls_executions, starttls_sent, tls_transport>>]_vars

\* C1 witness: an exchange runs after a STARTTLS request was sent.
C1_Witness ==
    pc = "authenticate" /\ starttls_sent = 1 /\ tls_executions = 1 /\ prompts = 1

\* C2: with tls_transport None, PLAIN is never a candidate, never selected
\* and never executed, whatever the peer advertises and whatever was rejected.
C2_NoPlainWithoutTls ==
    tls_transport = None =>
        /\ mechanism_class # "PLAIN"
        /\ token # "PLAIN"
        /\ \A i \in DOMAIN classes : classes[i] # "PLAIN"

\* C2 witness: without TLS, SCRAM was rejected, the peer advertises PLAIN and
\* the call is back at the mechanism loop.
C2_Witness ==
    /\ tls_transport = None
    /\ pc = "while_classes"
    /\ rejected = {"SCRAM"}
    /\ \E i \in DOMAIN features.mechanisms : features.mechanisms[i] = "PLAIN"

\* C3: while one mechanism is the chosen one, the password provider is
\* called at most max_auth_attempts times.
C3_PromptsBounded ==
    provider > 0 => prompts <= max_auth_attempts

\* C3 witness: the mechanism asked for credentials several times in a second
\* attempt and the password provider was called max_auth_attempts times.
C3_Witness ==
    /\ pc = "authenticate"
    /\ nattempt = 1
    /\ cred_requests >= 2
    /\ prompts = max_auth_attempts

\* C4 as stated: after an abort no later provider is invoked and the run
\* does not succeed.
C4_NoProviderAfterAbort ==
    abort_provider # 0 => provider = abort_provider /\ pc # "done"

\* C4 amended: the provider in which the password provider aborted raises
\* 'aborted by user'; negotiate_stream_security remembers it as
\* last_auth_error and goes on to the next provider if there is one; the run
\* fails with 'aborted by user' when the abort happened in the last provider.
C4_AbortFallsBackToNextProvider ==
    /\ [](/\ (pc = "provider_raised" /\ abort_provider = provider) =>
                exc = AbortedByUser
          /\ (pc = "failed" /\ abort_provider = Len(sasl_providers)) =>
                exc = AbortedByUser)
    /\ [][/\ (pc = "provider_raised" /\ exc = AbortedByUser) =>
                /\ pc' = "for_provider"
                /\ last_auth_error' = AbortedByUser
                /\ provider' = provider
          /\ (/\ pc = "for_provider"
              /\ last_auth_error = AbortedByUser
              /\ provider < Len(sasl_providers)) =>
                /\ pc' = "while_classes"
                /\ provider' = provider + 1]_vars

\* C4 witness: the password provider aborted in the first provider and the
\* second provider runs an exchange.
C4_Witness ==
    abort_provider = 1 /\ provider = 2 /\ pc = "authenticate"

\* C5: once the password provider has returned None, the execute call raises
\* 'aborted by user' as its next step: no attempt, no credential request and
\* no mechanism selection comes in between.
C5_AbortEndsCall ==
    /\ [](password_signalled_abort =>
             pc = "execute_except" /\ exc = AbortedByUser)
    /\ [][password_signalled_abort =>
             /\ pc' = "provider_raised"
             /\ exc' = AbortedByUser
             /\ UNCHANGED <<orchestrator, resets>>]_vars

\* C5 witness: the abort came in the first attempt of the first of two
\* candidates, with attempts left.
C5_Witness ==
    /\ password_signalled_abort
    /\ Len(classes) = 2
    /\ mechanism_class = "SCRAM"
    /\ next_attempt < max_auth_attempts

\* the candidate classes the peer's list makes usable
Usable(cls) ==
    \E i \in DOMAIN features.mechanisms :
        features.mechanisms[i] \in MechanismNames(cls)

\* C6: a class whose attempt ended with a mechanism-rejected condition is
\* removed from classes and never selected or executed again in the call; if
\* no usable candidate is left the call returns False.
C6_RejectedNeverRetried ==
    /\ [](/\ \A i \in DOMAIN classes : classes[i] \notin rejected
          /\ pc \in {"for_attempt"} \cup InExchange =>
                mechanism_class \notin rejected)
    /\ [][/\ (pc = "after_for" /\ ~mechanism_worked) =>
                /\ rejected' = rejected \cup {mechanism_class}
                /\ pc' = "while_classes"
          /\ (/\ pc = "while_classes"
              /\ rejected # {}
              /\ \A i \in DOMAIN classes : ~Usable(classes[i])) =>
                pc' = "provider_returned" /\ result' = FALSE]_vars

\* C6 witness: SCRAM was rejected and PLAIN is being executed.
C6_Witness ==
    rejected = {"SCRAM"} /\ mechanism_class = "PLAIN" /\ pc = "authenticate"

\* C7: after attempt k of a mechanism failed with an authentication-class
\* condition and k < max_auth_attempts - 1, attempt k + 1 of the same
\* mechanism starts with an empty cache and its credential request calls the
\* password provider with attempt number k + 1.
C7_RetryPromptsAnew ==
    /\ []((pc \in InExchange /\ p_last_auth_error # NoError) =>
             /\ nattempt = p_last_auth_error.at + 1
             /\ cred_requests = 0 => cached_credentials = None
             /\ cred_requests >= 1 => prompted_with = nattempt)
    /\ [][(/\ pc = "for_attempt"
           /\ p_last_auth_error # NoError
           /\ p_last_auth_error.at < max_auth_attempts - 1) =>
             /\ pc' = "authenticate"
             /\ nattempt' = p_last_auth_error.at + 1
             /\ mechanism_class' = mechanism_class
             /\ cached_credentials' = None]_vars

\* C7 witness: attempt 0 failed and the password provider was called with
\* attempt number 1.
C7_Witness ==
    /\ pc = "authenticate"
    /\ p_last_auth_error # NoError
    /\ p_last_auth_error.at = 0
    /\ prompted_with = 1

\* C8: when all max_auth_attempts attempts of the chosen mechanism failed
\* with authentication-class conditions, execute raises the error of the
\* last attempt and ends: no other mechanism is tried.
C8_LastErrorRaised ==
    /\ [](pc = "for_attempt" => next_attempt <= max_auth_attempts)
    /\ [][(/\ pc = "for_attempt"
           /\ max_auth_attempts >= 1
           /\ next_attempt = max_auth_attempts) =>
             /\ pc' = "provider_raised"
             /\ provider' = provider
             /\ exc'.kind = "AuthenticationFailure"
             /\ exc'.xmpp_error \in AUTHENTICATION_FAILURES
             /\ exc'.at = max_auth_attempts - 1]_vars

\* C8 witness: two attempts failed, PLAIN was still a candidate, and the
\* error of the second attempt left execute.
C8_Witness ==
    /\ pc = "provider_raised"
    /\ exc.kind = "AuthenticationFailure"
    /\ exc.at = 1
    /\ tls_transport # None

\* C9 as stated: one execute call starts at most max_auth_attempts exchanges.
C9_AtMostMaxAttemptsExchanges ==
    provider > 0 => exchanges <= max_auth_attempts

\* C10: a failure of an exchange with a condition outside both sets leaves
\* negotiate_stream_security unchanged: no attempt, no mechanism, no provider
\* and no stream reset follows it.
C10_OtherFailurePropagates ==
    /\ [](exc.kind = "SASLFailure" =>
             /\ pc \in {"execute_except", "provider_raised", "failed"}
             /\ exc.xmpp_error \notin
                    AUTHENTICATION_FAILURES \cup MECHANISM_REJECTED_FAILURES)
    /\ [][exc.kind = "SASLFailure" =>
             /\ exc' = exc
             /\ pc' \in {"provider_raised", "failed"}
             /\ UNCHANGED <<orchestrator, resets>>]_vars

\* C10 witness: the run failed with the peer's failure in the first attempt
\* of the first of two providers.
C10_Witness ==
    /\ pc = "failed"
    /\ exc = SASLFailure("aborted")
    /\ provider = 1
    /\ Len(sasl_providers) = 2

\* the provider loop of negotiate_stream_security and the execute frames
SaslPhase ==
    {"for_provider", "while_classes", "for_attempt", "authenticate",
     "execute_except", "after_for", "provider_raised", "provider_returned"}

\* 1 if the TLS phase produced a transport, 0 if not
TlsResets == IF tls_transport # None THEN 1 ELSE 0

\* C11: while the providers run, features is the node of the latest reset of
\* the run; when the TLS phase returned a transport that is the node of the
\* reset after TLS, never the node passed to negotiate_stream_security.
C11_ProvidersGetLatestFeatures ==
    pc \in SaslPhase =>
        /\ features.id = resets
        /\ tls_transport # None => features.id = 1
        /\ tls_transport = None => features.id = 0

\* C11 witness: the second provider runs an exchange on the node of the reset
\* after TLS.
C11_Witness ==
    /\ pc = "authenticate"
    /\ provider = 2
    /\ tls_transport # None
    /\ features.id = 1

\* C12: when the provider loop is exhausted, negotiate_stream_security raises
\* the AuthenticationFailure of the latest provider that raised one, and
\* SASLUnavailable("No common mechanisms") if none did; a provider that
\* returns False leaves the remembered error as it is.
C12_ExhaustedProviders ==
    /\ [](pc = "for_provider" => last_auth_error = latest_raised)
    /\ [][/\ (pc = "for_provider" /\ provider = Len(sasl_providers)) =>
                /\ pc' = "failed"
                /\ exc' = IF latest_raised # NoError
                          THEN latest_raised
                          ELSE SASLUnavailable("No common mechanisms")
          /\ (pc = "provider_returned" /\ ~result) =>
                /\ pc' = "for_provider"
                /\ last_auth_error' = last_auth_error]_vars

\* C12 witness: both providers of the list raised different authentication
\* errors and the run failed with the second one.
C12_Witness ==
    /\ pc = "failed"
    /\ provider = 2
    /\ abort_provider = 1
    /\ exc = AuthenticationFailure("not-authorized", 0)

\* C13: after a provider raised an AuthenticationFailure the next provider of
\* the list is invoked; when a provider returns True the loop ends, no other
\* provider is invoked and the remembered failure is not raised.
C13_FallbackThenSuccess ==
    /\ [](pc = "done" => exc = NoError /\ result)
    /\ [][/\ (pc = "provider_raised" /\ exc.kind = "AuthenticationFailure") =>
                pc' = "for_provider" /\ provider' = provider
          /\ (pc = "for_provider" /\ provider < Len(sasl_providers)) =>
                pc' = "while_classes" /\ provider' = provider + 1
          /\ (pc = "provider_returned" /\ result) =>
                pc' = "reset_sasl" /\ provider' = provider
          /\ pc = "reset_sasl" =>
                /\ provider' = provider
                /\ \/ pc' = "done"
                   \/ pc' = "failed" /\ exc' = TimeoutError
                   \/ pc' = "failed" /\ exc' = CancelledError]_vars

\* C13 witness: the first provider raised an authentication error and the run
\* succeeded with the second.
C13_Witness ==
    /\ pc = "done"
    /\ provider = 2
    /\ latest_raised # NoError

\* the classes execute starts with
Candidates == IF tls_transport # None THEN {"SCRAM", "PLAIN"} ELSE {"SCRAM"}

\* C14: when the peer's list shares no name with the provider's candidates,
\* execute returns False without raising, and negotiate_stream_security goes
\* on with the next provider.
C14_DisjointReturnsFalse ==
    [][/\ (/\ pc = "while_classes"
           /\ rejected = {}
           /\ features.sasl
           /\ \A c \in Candidates : ~Usable(c)) =>
             /\ pc' = "provider_returned"
             /\ result' = FALSE
             /\ exc' = exc
       /\ (pc = "provider_returned" /\ ~result) =>
             pc' = "for_provider" /\ exc' = exc
       /\ (pc = "for_provider" /\ ~result /\ provider < Len(sasl_providers)) =>
             provider' = provider + 1]_vars

\* C14 witness: the peer advertises only PLAIN, there is no TLS, the first
\* provider has returned and the second is invoked.
C14_Witness ==
    /\ pc = "while_classes"
    /\ provider = 2
    /\ tls_transport = None
    /\ features.mechanisms = <<"PLAIN">>
    /\ latest_raised = NoError

NoSASL == SASLUnavailable("Remote side does not support SASL")

\* C15: when features has no mechanisms feature, the first provider raises
\* SASLUnavailable and the run fails with it: no second provider is invoked,
\* no exchange is started and the password provider is not called.
C15_NoSaslFeatureIsFatal ==
    (~features.sasl /\ pc \in SaslPhase \cup {"reset_sasl", "failed"}) =>
        \/ pc = "for_provider" /\ provider = 0
        \/ pc = "while_classes" /\ provider = 1 /\ rejected = {}
        \/ pc = "provider_raised" /\ provider = 1 /\ exc = NoSASL
        \/ pc = "failed" /\ provider = 1 /\ exc = NoSASL
        \/ pc = "failed" /\ provider = 0

\* C15 witness: the run failed in the first of two providers.
C15_Witness ==
    /\ pc = "failed"
    /\ exc = NoSASL
    /\ Len(sasl_providers) = 2

\* the node passed to negotiate_stream_security does not advertise STARTTLS
NoStarttls == features.id = 0 /\ ~features.starttls

C17_UpgradeFailureIsFatal ==
    (tls_response = "proceed" /\ pc # "tls_upgrade") =>
        \/ tls_transport # None /\ exc.kind # "TLSFailure"
        \/ /\ tls_transport = None
           /\ pc = "failed"
           /\ exc = TLSFailure("TLS connection failed")
           /\ provider = 0
        \/ /\ tls_transport = None
           /\ cancelled
           /\ pc = "failed"
           /\ exc = CancelledError
           /\ provider = 0

\* C17 witness: the upgrade failed with require_starttls False.
C17_Witness ==
    /\ tls_response = "proceed"
    /\ ~required
    /\ ~cancelled
    /\ pc = "failed"
    /\ tls_transport = None

C19_ResetsOfASuccessfulRun ==
    /\ pc \in {"start", "tls_wait", "tls_upgrade", "tls_returned", "reset_tls"}
          => resets = 0
    /\ pc \in SaslPhase \cup {"reset_sasl"} => resets = TlsResets
    /\ pc = "done" =>
          /\ resets = TlsResets + 1
          /\ features.id = resets
          /\ result
          /\ tls_transport # None <=> (tls_response = "proceed" /\ upgrades = 1)

\* C19 witness: a run with TLS succeeded after two resets.
C19_Witness ==
    pc = "done" /\ tls_transport # None /\ resets = 2 /\ features.id = 2

\* C20: a timeout of the reset after TLS makes the run fail with the timeout
\* before any provider is invoked; a timeout of the reset after a successful
\* provider makes the run fail with the timeout instead of returning. (The
\* only other way a reset does not return is the caller's cancellation.)
C20_ResetTimeoutIsFatal ==
    /\ [](exc = TimeoutError => pc = "failed")
    /\ [][/\ pc = "reset_tls" =>
                \/ /\ pc' = "for_provider"
                   /\ features'.id = resets'
                   /\ exc' = exc
                \/ /\ pc' = "failed"
                   /\ exc' = TimeoutError
                   /\ provider' = 0
                   /\ features' = features
                \/ cancelled' /\ pc' = "failed" /\ exc' = CancelledError
          /\ pc = "reset_sasl" =>
                \/ /\ pc' = "done"
                   /\ features'.id = resets'
                   /\ exc' = exc
                \/ /\ pc' = "failed"
                   /\ exc' = TimeoutError
                   /\ features' = features
                \/ cancelled' /\ pc' = "failed" /\ exc' = CancelledError]_vars

\* C20 witness: the reset after TLS timed out.
C20_Witness ==
    /\ pc = "failed"
    /\ exc = TimeoutError
    /\ provider = 0
    /\ tls_transport # None

\* C21 as stated: when the for loop of execute is exhausted, last_auth_error
\* of execute holds an authentication error, so that raise last_auth_error
\* never raises None.
C21_ExhaustionHasAnError ==
    (pc = "for_attempt" /\ next_attempt >= max_auth_attempts) =>
        p_last_auth_error # NoError

\* C22 as stated: after every failed attempt of the call, whatever its class,
\* cached_credentials is None, so that the next credential request calls the
\* password provider.
C22_CacheClearedAfterEveryFailure ==
    (pc \in {"while_classes", "for_attempt"} /\ exchanges > 0) =>
        cached_credentials = None

\* C22 amended: cached_credentials is None after an attempt that failed with
\* an authentication-class condition; after a mechanism-rejected condition it
\* is kept, and the first attempt of the next mechanism uses it without
\* calling the password provider.
C22_CacheClearedAfterAuthenticationFailure ==
    /\ (pc = "for_attempt" /\ next_attempt > 0) => cached_credentials = None
    /\ (pc = "while_classes" /\ rejected # {}) => cached_credentials # None
    /\ (pc = "authenticate" /\ rejected # {} /\ nattempt = 0) =>
          cached_credentials # None /\ prompts = 0

\* C22 witness: SCRAM was rejected and the first exchange with PLAIN got the
\* cached credentials without a call of the password provider.
C22_Witness ==
    /\ pc = "authenticate"
    /\ rejected = {"SCRAM"}
    /\ mechanism_class = "PLAIN"
    /\ nattempt = 0
    /\ cred_requests = 1
    /\ prompts = 0

\* C23 as stated: a run that fails with SASLUnavailable("No common
\* mechanisms") had no exchange that the peer answered with an
\* authentication-class condition.
C23_NoCommonMechanismsWithoutRejection ==
    (pc = "failed" /\ exc = SASLUnavailable("No common mechanisms")) =>
        ~auth_conditions

\* the indices of classes the peer's names make usable
UsableClasses == { i \in DOMAIN classes : Usable(classes[i]) }

\* C24: the class execute works with is the first of classes, in the order
\* of classes, that can use a name of the peer, whatever the order of the
\* peer's names is; _find_supported gives (None, None), and execute returns
\* False, exactly when no class of classes is usable.
C24_FirstUsableCandidate ==
    /\ [](pc \in InExchange \cup {"for_attempt"} =>
             /\ UsableClasses # {}
             /\ \E i \in UsableClasses :
                   /\ mechanism_class = classes[i]
                   /\ \A j \in UsableClasses : i <= j
             /\ token \in MechanismNames(mechanism_class)
             /\ ("SCRAM" \notin rejected /\ Usable("SCRAM")) =>
                   mechanism_class = "SCRAM")
    /\ [][(pc = "while_classes" /\ features.sasl /\ classes # <<>>) =>
             /\ UsableClasses = {} <=> pc' = "provider_returned"
             /\ UsableClasses # {} <=> pc' = "for_attempt"
             /\ pc' = "provider_returned" => result' = FALSE]_vars

\* C24 witness: with TLS the peer lists PLAIN before SCRAM-SHA-1 and an
\* exchange with SCRAM runs.
C24_Witness ==
    /\ pc = "authenticate"
    /\ tls_transport # None
    /\ features.mechanisms = <<"PLAIN", "SCRAM-SHA-1">>
    /\ mechanism_class = "SCRAM"
    /\ token = "SCRAM-SHA-1"

\* C25 as stated: a run the caller cancelled ends with CancelledError.
C25_CancellationEndsTheRun ==
    cancelled => pc = "failed" /\ exc = CancelledError

\* C26: an execute call starts at most (number of candidate classes) *
\* max_auth_attempts exchanges, every pass of its while loop ends the call or
\* removes one class, and every run of negotiate_stream_security ends.
C26_Terminates ==
    /\ [](pc \in InExchange \cup {"for_attempt", "while_classes"} =>
             /\ exchanges <= Cardinality(Candidates) * max_auth_attempts
             /\ Len(classes) + Cardinality(rejected) = Cardinality(Candidates))
    /\ [][pc = "after_for" =>
             \/ pc' \in {"provider_returned", "provider_raised"}
             \/ pc' = "while_classes" /\ Len(classes') = Len(classes) - 1]_vars
    /\ <>(pc \in {"done", "failed"})

\* C26 witness: with TLS, the last exchange the bound allows runs.
C26_Witness ==
    /\ pc = "authenticate"
    /\ max_auth_attempts >= 2
    /\ Cardinality(Candidates) = 2
    /\ exchanges = 2 * max_auth_attempts

\* the configuration tls_with_password_based_authentication builds
Factory == required /\ Len(sasl_providers) = 1

\* C27: with the layer of tls_with_password_based_authentication, no provider
\* is invoked, no exchange runs and the password provider is not called while
\* tls_transport is None; a run that ends without TLS has failed with
\* TLSFailure before the provider loop (or was cancelled by the caller).
C27_NoSaslWithoutTls ==
    Factory =>
        /\ (provider > 0 \/ exchanges > 0 \/ prompts > 0 \/ cred_requests > 0)
              => tls_transport # None
        /\ tls_transport = None => pc \in TlsPhase \cup {"failed"}
        /\ (pc = "failed" /\ tls_transport = None /\ ~cancelled) =>
              exc.kind = "TLSFailure" /\ provider = 0
        /\ pc = "done" => tls_transport # None

\* C27 witness: with that layer the password provider was called after TLS
\* was established.
C27_Witness ==
    /\ Factory
    /\ pc = "authenticate"
    /\ prompts = 1
    /\ tls_transport # None

====
